---- MODULE Spec2Model ----
(***************************************************************************)
(* State-machine model of the browser front end of the posture-assessment  *)
(* demo: the two task components (RaiseHandTask, OneLegStanceTask), their  *)
(* detection predicates, their frame and countdown callbacks and their     *)
(* backend submission.                                                     *)
(*                                                                         *)
(* A React function component re-runs on every render, and every function  *)
(* it defines closes over the state values of the render that created it.  *)
(* The model therefore keeps, with every scheduled callback and every      *)
(* asynchronous call in flight, the values it captured ("cap"), and the    *)
(* callbacks read those, never the current state.  Refs (xxxRef.current)   *)
(* are shared mutable cells and are read live.                             *)
(*                                                                         *)
(* Units: y coordinates in thousandths of the frame height, visibility in  *)
(* hundredths, time in milliseconds.                                       *)
(***************************************************************************)
EXTENDS Integers, Sequences, FiniteSets, TLC

\* ---------------------------------------------------------------- bounds
MaxCalls == 2
MaxHandles == 2
MaxFrames == 2
MaxSessions == 2
TickMs == 10000
MaxClockMs == 10000
TimeOriginMs == 1000000
MaxReplayFrames == 3
MaxGap == 1
MaxReplayClock == 5
MaxCompletions == 2

\* ------------------------------------------------------ program constants
TASK_DURATION == 10
ANKLE_HEIGHT_THRESHOLD == 10
HAND_MIN_VISIBILITY == 30
STANCE_MIN_VISIBILITY == 10
LANDMARK_COUNT == 33

TaskStatus == {"idle", "ready", "detecting", "success", "failed"}

\* ------------------------------------------------------------- landmarks
\* A landmark of the pose model's result; ok = FALSE stands for an entry that
\* is missing from the array (undefined in the source).
Lm(y, v) == [ok |-> TRUE, y |-> y, vis |-> v]
NoLm == [ok |-> FALSE, y |-> 0, vis |-> 0]

LANDMARKS == {"LEFT_WRIST", "RIGHT_WRIST", "LEFT_SHOULDER", "RIGHT_SHOULDER",
              "LEFT_ANKLE", "RIGHT_ANKLE", "LEFT_HIP", "RIGHT_HIP"}

Abs(x) == IF x < 0 THEN -x ELSE x

\* detectHandRaised(landmarks): landmarks is result.landmarks[0].
detectHandRaised_AnyVisible(landmarks) ==
    LET leftWrist == landmarks.LEFT_WRIST
        rightWrist == landmarks.RIGHT_WRIST
        leftShoulder == landmarks.LEFT_SHOULDER
        rightShoulder == landmarks.RIGHT_SHOULDER
    IN  IF ~leftWrist.ok \/ ~rightWrist.ok \/ ~leftShoulder.ok \/ ~rightShoulder.ok
        THEN FALSE
        ELSE (leftWrist.vis >= HAND_MIN_VISIBILITY /\ leftShoulder.vis >= HAND_MIN_VISIBILITY
                /\ leftWrist.y < leftShoulder.y)
             \/ (rightWrist.vis >= HAND_MIN_VISIBILITY /\ rightShoulder.vis >= HAND_MIN_VISIBILITY
                /\ rightWrist.y < rightShoulder.y)

detectHandRaised(landmarks) ==
    LET leftWrist == landmarks.LEFT_WRIST
        rightWrist == landmarks.RIGHT_WRIST
        leftShoulder == landmarks.LEFT_SHOULDER
        rightShoulder == landmarks.RIGHT_SHOULDER
    IN  IF ~leftWrist.ok \/ ~rightWrist.ok \/ ~leftShoulder.ok \/ ~rightShoulder.ok
        THEN FALSE
        ELSE IF leftWrist.vis < HAND_MIN_VISIBILITY \/ rightWrist.vis < HAND_MIN_VISIBILITY
                \/ leftShoulder.vis < HAND_MIN_VISIBILITY
                \/ rightShoulder.vis < HAND_MIN_VISIBILITY
        THEN FALSE
        ELSE LET leftHandRaised == leftWrist.y < leftShoulder.y
                 rightHandRaised == rightWrist.y < rightShoulder.y
             IN  leftHandRaised \/ rightHandRaised

\* detectOneLegStance(result): result.landmarks is a sequence holding zero or
\* one pose.  avgHipY = (leftHip.y + rightHip.y) / 2 may be a half unit, so the
\* comparison heightDiff > ANKLE_HEIGHT_THRESHOLD is made on doubled values.
detectOneLegStance_AtLeast(result) ==
    IF Len(result) = 0 THEN FALSE
    ELSE
    LET landmarks == result[1]
        leftAnkle == landmarks.LEFT_ANKLE
        rightAnkle == landmarks.RIGHT_ANKLE
        leftHip == landmarks.LEFT_HIP
        rightHip == landmarks.RIGHT_HIP
    IN  IF ~leftAnkle.ok \/ ~rightAnkle.ok \/ ~leftHip.ok \/ ~rightHip.ok
           \/ leftAnkle.vis < STANCE_MIN_VISIBILITY \/ rightAnkle.vis < STANCE_MIN_VISIBILITY
           \/ leftHip.vis < STANCE_MIN_VISIBILITY \/ rightHip.vis < STANCE_MIN_VISIBILITY
        THEN FALSE
        ELSE LET avgHipY2 == leftHip.y + rightHip.y
                 leftAnkleHeight2 == avgHipY2 - 2 * leftAnkle.y
                 rightAnkleHeight2 == avgHipY2 - 2 * rightAnkle.y
                 heightDiff2 == Abs(leftAnkleHeight2 - rightAnkleHeight2)
             IN  heightDiff2 >= 2 * ANKLE_HEIGHT_THRESHOLD

detectOneLegStance(result) ==
    IF Len(result) = 0 THEN FALSE
    ELSE
    LET landmarks == result[1]
        leftAnkle == landmarks.LEFT_ANKLE
        rightAnkle == landmarks.RIGHT_ANKLE
        leftHip == landmarks.LEFT_HIP
        rightHip == landmarks.RIGHT_HIP
    IN  IF ~leftAnkle.ok \/ ~rightAnkle.ok \/ ~leftHip.ok \/ ~rightHip.ok
           \/ leftAnkle.vis < STANCE_MIN_VISIBILITY \/ rightAnkle.vis < STANCE_MIN_VISIBILITY
           \/ leftHip.vis < STANCE_MIN_VISIBILITY \/ rightHip.vis < STANCE_MIN_VISIBILITY
        THEN FALSE
        ELSE LET avgHipY2 == leftHip.y + rightHip.y
                 leftAnkleHeight2 == avgHipY2 - 2 * leftAnkle.y
                 rightAnkleHeight2 == avgHipY2 - 2 * rightAnkle.y
                 heightDiff2 == Abs(leftAnkleHeight2 - rightAnkleHeight2)
             IN  heightDiff2 > 2 * ANKLE_HEIGHT_THRESHOLD

\* ------------------------------------------------- what the camera can see
\* The poses the user takes in front of the camera while a component runs.
Body(wristY, ankleY, v) ==
    [LEFT_WRIST |-> Lm(wristY, v), RIGHT_WRIST |-> Lm(700, v),
     LEFT_SHOULDER |-> Lm(300, v), RIGHT_SHOULDER |-> Lm(300, v),
     LEFT_ANKLE |-> Lm(ankleY, v), RIGHT_ANKLE |-> Lm(900, v),
     LEFT_HIP |-> Lm(500, v), RIGHT_HIP |-> Lm(500, v)]

PoseNames == {"none", "neutral", "active"}

\* result.landmarks of detectForVideo for the pose in front of the camera:
\* "none" is an empty frame, "neutral" stands with both arms down and both
\* feet on the ground, "active" holds the left wrist above the left shoulder
\* and the left foot off the ground, every landmark clearly visible.
LandmarksOf(p) ==
    CASE p = "none" -> << >>
      [] p = "neutral" -> << Body(700, 900, 90) >>
      [] p = "active" -> << Body(100, 800, 90) >>

\* ------------------------------------------------------------------ state
VARIABLES
    mounted,         \* which component the page shows, or the detector applied alone
    mediaSupported,  \* navigator.mediaDevices.getUserMedia exists in this browser
    clock,           \* performance.now(), in ms since the page loaded
    pose,            \* the pose in front of the camera (a member of PoseNames)
    w,               \* the mounted component: React state, refs, browser queues
    ev,              \* kind of the last event handled (history)
    probe            \* input and output of the detector applied last

vars == << mounted, mediaSupported, clock, pose, w, ev, probe >>

\* Date.now() and performance.now() read the same clock from different origins.
DateNow == TimeOriginMs + clock
PerformanceNow == clock

FreeCall == [fn |-> "free", pc |-> "none",
             cap |-> [active |-> FALSE, taskStatus |-> "idle"], sid |-> 0]

\* The component as mounted: every useState initial value and useRef(null).
\* 0 stands for null in refs that hold a handle, a time or a session id.
InitialComponent ==
    [ taskStatus |-> "idle", timeRemaining |-> TASK_DURATION,
      isProcessing |-> FALSE, sessionResults |-> 0,
      isRunning |-> FALSE, status |-> "clickStart",
      isCameraActive |-> FALSE, error |-> "none", isModelLoading |-> FALSE,
      audioPlayed |-> FALSE,
      poseLandmarkerRef |-> FALSE, streamRef |-> 0, srcObject |-> 0,
      animationFrameRef |-> 0, timerIntervalRef |-> 0, taskStartTimeRef |-> 0,
      recordedFramesRef |-> << >>, sessionIdRef |-> 0,
      rafQueue |-> {}, timers |-> {}, streams |-> {},
      calls |-> [c \in 1..MaxCalls |-> FreeCall],
      nextSession |-> 0, requests |-> << >>, dropped |-> FALSE ]

\* ---------------------------------------------------------------- browser
STALE == 0 - 1
\* Handles of animation frames, of timers and of media streams, each kind with
\* numbers of its own.  The browser never reuses one, so a fresh handle is one
\* that no queue and no ref still holds.
FramesInUse(s) == ({r.id : r \in s.rafQueue} \cup {s.animationFrameRef}) \ {0, STALE}
TimersInUse(s) == ({t.id : t \in s.timers} \cup {s.timerIntervalRef}) \ {0, STALE}
StreamsInUse(s) == (s.streams \cup {s.streamRef, s.srcObject}) \ {0, STALE}

Fresh(used) == CHOOSE h \in 1..(MaxHandles + 1) :
                  h \notin used /\ \A g \in 1..(h - 1) : g \in used

\* Handles are opaque: the program only hands them back to the browser.  Two
\* states that differ by a renaming of handles, or by which spent handle (a
\* callback that ran or was cancelled, a stream whose tracks were stopped) a
\* ref still holds, behave alike; Canon picks one of them.  STALE stands for
\* any spent handle: it is not null, and cancelling it does nothing.
\* Likewise which slot holds which call in flight makes no difference: Canon
\* keeps them in the first slots, in the order they were made.
Rank(live, h) == IF h = 0 THEN 0
                 ELSE IF h \notin live THEN STALE
                 ELSE Cardinality({g \in live : g <= h})
InFlight(call) == call.fn # "free"
Canon(s) ==
    LET frames == {r.id : r \in s.rafQueue}
        timers == {t.id : t \in s.timers}
        busy == SelectSeq(s.calls, InFlight)
    IN  [s EXCEPT !.calls = [c \in 1..MaxCalls |->
                                IF c <= Len(busy) THEN busy[c] ELSE FreeCall],
                  !.rafQueue = {[r EXCEPT !.id = Rank(frames, r.id)] : r \in @},
                  !.timers = {[t EXCEPT !.id = Rank(timers, t.id)] : t \in @},
                  !.streams = {Rank(s.streams, x) : x \in @},
                  !.animationFrameRef = Rank(frames, @),
                  !.timerIntervalRef = Rank(timers, @),
                  !.streamRef = Rank(s.streams, @),
                  !.srcObject = Rank(s.streams, @)]

\* The model's bounds, as a condition on the state an action leads to.
Bounded(s) ==
    /\ FramesInUse(s) \subseteq 1..MaxHandles
    /\ TimersInUse(s) \subseteq 1..MaxHandles
    /\ StreamsInUse(s) \subseteq 1..MaxHandles
    /\ Len(s.recordedFramesRef) <= MaxFrames
    /\ s.nextSession <= MaxSessions
    /\ ~s.dropped

requestAnimationFrame(s, cap) ==
    LET id == Fresh(FramesInUse(s))
    IN  [s EXCEPT !.rafQueue = @ \cup {[id |-> id, cap |-> cap]},
                  !.animationFrameRef = id]

\* cancelAnimationFrame(id); the variant leaves the callback scheduled.
cancelAnimationFrame_Ignored(s, id) == s
cancelAnimationFrame(s, id) == [s EXCEPT !.rafQueue = {r \in @ : r.id # id}]

\* window.setInterval(countdown, 100), the handle stored in timerIntervalRef.
setInterval(s) ==
    LET id == Fresh(TimersInUse(s))
    IN  [s EXCEPT !.timers = @ \cup {[id |-> id]},
                  !.timerIntervalRef = id]

clearInterval(s, id) == [s EXCEPT !.timers = {t \in @ : t.id # id}]

FreeSlots(s) == {c \in 1..MaxCalls : s.calls[c].fn = "free"}
FirstFree(s) == CHOOSE c \in FreeSlots(s) : \A d \in FreeSlots(s) : c <= d

\* An async function is called: it runs to its first await and stays in flight.
\* (dropped marks a call the model has no room for.)
Spawn(s, fn, pc, cap) ==
    IF FreeSlots(s) = {} THEN [s EXCEPT !.dropped = TRUE]
    ELSE [s EXCEPT !.calls[FirstFree(s)] = [fn |-> fn, pc |-> pc, cap |-> cap, sid |-> 0]]

Return(s, c) == [s EXCEPT !.calls[c] = FreeCall]

CeilDiv(a, b) == (a + b - 1) \div b
Max(a, b) == IF a > b THEN a ELSE b

\* api.createSession / processPoseData / getSessionResults: the fetch sent.
Request(s, api, sid) ==
    [s EXCEPT !.requests = Append(@, [api |-> api, sid |-> sid,
                                       frames |-> Len(s.recordedFramesRef)])]

\* ========================================================== RaiseHandTask
\* The values a function defined during the current render closes over.
rh_Render(s) == [active |-> s.isRunning, taskStatus |-> s.taskStatus]

\* sendToBackend, up to its first await (api.createSession).
rh_sendToBackend(s) ==
    Request(Spawn([s EXCEPT !.isProcessing = TRUE], "sendToBackend", "createSession",
                  rh_Render(s)),
            "createSession", 0)

\* The countdown callback given to setInterval by processFrame.
rh_countdown(s, now) ==
    IF s.taskStartTimeRef = 0 THEN s
    ELSE LET elapsed == now - s.taskStartTimeRef
             remaining == Max(0, TASK_DURATION * 1000 - elapsed)
             s1 == [s EXCEPT !.timeRemaining = CeilDiv(remaining, 1000)]
         IN  IF remaining <= 0
             THEN LET s2 == IF s1.timerIntervalRef # 0
                            THEN clearInterval(s1, s1.timerIntervalRef) ELSE s1
                  IN  rh_sendToBackend([s2 EXCEPT !.taskStatus = "success"])
             ELSE s1

\* The guard that opens processFrame: video, canvas (mounted with the component),
\* the landmarker ref, and isRunning as the closure captured it.
rh_frameGuard_RefsOnly(s, cap) == s.poseLandmarkerRef

rh_frameGuard(s, cap) == s.poseLandmarkerRef /\ cap.active

\* processFrame, a closure of the start() call that defined it: isRunning and
\* taskStatus are cap's, the values of the render start() was clicked in.
\* p is the pose in the video frame, now is Date.now().
rh_processFrame(s, cap, p, now) ==
    IF ~rh_frameGuard(s, cap) THEN s
    ELSE
    LET result == LandmarksOf(p)
        s1 == IF Len(result) = 0 THEN s
              ELSE IF cap.taskStatus = "ready"
              THEN IF detectHandRaised(result[1])
                   THEN setInterval([s EXCEPT !.taskStatus = "detecting",
                                              !.taskStartTimeRef = now,
                                              !.recordedFramesRef = << >>])
                   ELSE s
              ELSE IF cap.taskStatus = "detecting"
              THEN LET rec == [s EXCEPT !.recordedFramesRef =
                                  Append(@, [frame_number |-> Len(@),
                                             timestamp |-> now - s.taskStartTimeRef,
                                             landmarks |-> p])]
                   IN  IF ~detectHandRaised(result[1])
                       THEN [(IF rec.timerIntervalRef # 0
                              THEN clearInterval(rec, rec.timerIntervalRef) ELSE rec)
                             EXCEPT !.taskStatus = "failed"]
                       ELSE rec
              ELSE s
    IN  requestAnimationFrame(s1, cap)

\* start() failed at an await: catch (err) { setStatus(`Error: ...`) }.
rh_startFailed(s, c) == Return([s EXCEPT !.status = "error"], c)

\* start() resumes after the await it is suspended at (ok: the promise resolved).
rh_startResumes(s, c, ok, supported, p, now) ==
    LET pc == s.calls[c].pc
    IN  IF ~ok THEN rh_startFailed(s, c)
        ELSE CASE pc = "forVisionTasks" ->
                    [s EXCEPT !.calls[c].pc = "createFromOptions"]
               [] pc = "createFromOptions" ->
                    LET s1 == [s EXCEPT !.poseLandmarkerRef = TRUE,
                                        !.status = "modelLoaded"]
                    IN  IF supported THEN [s1 EXCEPT !.calls[c].pc = "getUserMedia"]
                        ELSE rh_startFailed(s1, c)
               [] pc = "getUserMedia" ->
                    LET stream == Fresh(StreamsInUse(s))
                    IN  [s EXCEPT !.streams = @ \cup {stream}, !.srcObject = stream,
                                  !.calls[c].pc = "play"]
               [] pc = "play" ->
                    rh_processFrame(
                        Return([s EXCEPT !.status = "cameraActive", !.isRunning = TRUE], c),
                        s.calls[c].cap, p, now)

\* sendToBackend resumes after an api call settled.
rh_sendResumes(s, c, ok) ==
    LET pc == s.calls[c].pc
        finally(t) == Return([t EXCEPT !.isProcessing = FALSE], c)
    IN  IF ~ok THEN finally([s EXCEPT !.status = "backendError"])
        ELSE CASE pc = "createSession" ->
                    LET id == s.nextSession + 1
                    IN  Request([s EXCEPT !.nextSession = id, !.sessionIdRef = id,
                                          !.calls[c].sid = id,
                                          !.calls[c].pc = "processPoseData"],
                                "processPoseData", id)
               [] pc = "processPoseData" ->
                    Request([s EXCEPT !.calls[c].pc = "getSessionResults"],
                            "getSessionResults", s.calls[c].sid)
               [] pc = "getSessionResults" ->
                    finally([s EXCEPT !.sessionResults = s.calls[c].sid])

rh_start(s) ==
    Spawn([s EXCEPT !.status = "loading"], "start", "forVisionTasks", rh_Render(s))

rh_stop(s) ==
    LET s1 == IF s.animationFrameRef # 0
              THEN cancelAnimationFrame(s, s.animationFrameRef) ELSE s
        s2 == IF s1.timerIntervalRef # 0
              THEN clearInterval(s1, s1.timerIntervalRef) ELSE s1
        s3 == IF s2.srcObject # 0
              THEN [s2 EXCEPT !.streams = @ \ {s2.srcObject}] ELSE s2
    IN  [s3 EXCEPT !.isRunning = FALSE, !.taskStatus = "idle", !.status = "stopped"]

rh_beginTask(s) ==
    [s EXCEPT !.taskStatus = "ready", !.timeRemaining = TASK_DURATION,
              !.taskStartTimeRef = 0, !.status = "raiseHand"]

rh_resetTask(s) ==
    LET s1 == IF s.timerIntervalRef # 0
              THEN clearInterval(s, s.timerIntervalRef) ELSE s
    IN  [s1 EXCEPT !.taskStatus = "idle", !.timeRemaining = TASK_DURATION,
                   !.taskStartTimeRef = 0, !.recordedFramesRef = << >>,
                   !.sessionResults = 0, !.sessionIdRef = 0,
                   !.status = "cameraActive"]

\* ======================================================= OneLegStanceTask
\* The values the useCallback closures of the current render close over
\* (processFrame's dependency list: isCameraActive, taskStatus).
ol_Render(s) == [active |-> s.isCameraActive, taskStatus |-> s.taskStatus]

\* sendToBackend, up to its first await (api.createSession).
ol_sendToBackend(s) ==
    IF Len(s.recordedFramesRef) = 0 THEN s
    ELSE Request(Spawn([s EXCEPT !.isProcessing = TRUE, !.error = "none"],
                       "sendToBackend", "createSession", ol_Render(s)),
                 "createSession", 0)

\* The countdown callback given to setInterval by processFrame.
ol_countdown(s, now) ==
    IF s.taskStartTimeRef = 0 THEN s
    ELSE LET elapsed == now - s.taskStartTimeRef
             remaining == Max(0, TASK_DURATION * 1000 - elapsed)
             s1 == [s EXCEPT !.timeRemaining = CeilDiv(remaining, 1000)]
         IN  IF remaining <= 0
             THEN LET s2 == IF s1.timerIntervalRef # 0
                            THEN [clearInterval(s1, s1.timerIntervalRef)
                                  EXCEPT !.timerIntervalRef = 0]
                            ELSE s1
                  IN  ol_sendToBackend([s2 EXCEPT !.taskStatus = "success"])
             ELSE s1

\* recordPoseFrame(result, timestamp)
ol_recordPoseFrame(s, p, timestamp) ==
    IF Len(LandmarksOf(p)) = 0 THEN s
    ELSE [s EXCEPT !.recordedFramesRef =
              Append(@, [frame_number |-> Len(@), timestamp |-> timestamp,
                         landmarks |-> p])]

\* The guard that opens processFrame: video, canvas (mounted with the component),
\* the landmarker ref, and isCameraActive as the closure captured it.
ol_frameGuard_RefsOnly(s, cap) == s.poseLandmarkerRef

ol_frameGuard(s, cap) == s.poseLandmarkerRef /\ cap.active

\* processFrame as memoised in one render: isCameraActive and taskStatus are
\* cap's.  perfNow is performance.now(), dateNow is Date.now().
ol_processFrame(s, cap, p, perfNow, dateNow) ==
    IF ~ol_frameGuard(s, cap) THEN s
    ELSE
    LET result == LandmarksOf(p)
        s1 == IF cap.taskStatus = "detecting" /\ s.taskStartTimeRef # 0
              THEN ol_recordPoseFrame(s, p, perfNow - s.taskStartTimeRef)
              ELSE s
        s2 == IF cap.taskStatus = "ready"
              THEN IF detectOneLegStance(result)
                   THEN setInterval([s1 EXCEPT !.taskStatus = "detecting",
                                               !.taskStartTimeRef = dateNow,
                                               !.recordedFramesRef = << >>])
                   ELSE s1
              ELSE IF cap.taskStatus = "detecting"
              THEN IF ~detectOneLegStance(result)
                   THEN [(IF s1.timerIntervalRef # 0
                          THEN [clearInterval(s1, s1.timerIntervalRef)
                                EXCEPT !.timerIntervalRef = 0]
                          ELSE s1)
                         EXCEPT !.taskStatus = "failed"]
                   ELSE s1
              ELSE s1
    IN  requestAnimationFrame(s2, cap)

ol_stopCamera(s) ==
    LET s1 == IF s.animationFrameRef # 0
              THEN [cancelAnimationFrame(s, s.animationFrameRef)
                    EXCEPT !.animationFrameRef = 0]
              ELSE s
        s2 == IF s1.timerIntervalRef # 0
              THEN [clearInterval(s1, s1.timerIntervalRef) EXCEPT !.timerIntervalRef = 0]
              ELSE s1
        s3 == IF s2.streamRef # 0
              THEN [s2 EXCEPT !.streams = @ \ {s2.streamRef}, !.streamRef = 0]
              ELSE s2
    IN  [s3 EXCEPT !.srcObject = 0, !.isCameraActive = FALSE]

\* initializePoseLandmarker, up to its first await; called on mount and by
\* startCamera (fn names the caller that resumes when it settles).
ol_initializePoseLandmarker(s, fn, cap) ==
    Spawn([s EXCEPT !.isModelLoading = TRUE, !.error = "none"],
          fn, "init.forVisionTasks", cap)

\* startCamera after `await initializePoseLandmarker()`.
ol_startCameraAfterInit(s, c, supported) ==
    IF ~s.poseLandmarkerRef THEN Return([s EXCEPT !.error = "modelFailed"], c)
    ELSE IF ~supported THEN Return([s EXCEPT !.error = "unsupported"], c)
    ELSE [s EXCEPT !.calls[c].pc = "getUserMedia"]

\* startCamera, up to its first await that suspends.
ol_startCamera(s, supported) ==
    LET s1 == ol_stopCamera([s EXCEPT !.error = "none"])
    IN  IF s1.poseLandmarkerRef
        THEN IF FreeSlots(s1) = {} THEN [s1 EXCEPT !.dropped = TRUE]
             ELSE LET c == FirstFree(s1)
                  IN  ol_startCameraAfterInit(
                          [s1 EXCEPT !.calls[c] = [fn |-> "startCamera", pc |-> "init",
                                                   cap |-> ol_Render(s), sid |-> 0]],
                          c, supported)
        ELSE ol_initializePoseLandmarker(s1, "startCamera", ol_Render(s))

\* catch (err) of startCamera: the message by err.name, then stopCamera().
ol_startCameraFailed(s, c, err) ==
    LET msg == CASE err = "NotAllowedError" -> "denied"
                 [] err = "NotFoundError" -> "notFound"
                 [] OTHER -> "other"
    IN  Return(ol_stopCamera([s EXCEPT !.error = msg]), c)

\* initializePoseLandmarker resumes (in a startCamera call it is followed by
\* the rest of startCamera).
ol_initResumes(s, c, ok, supported) ==
    LET pc == s.calls[c].pc
        after(t) == IF t.calls[c].fn = "startCamera"
                    THEN ol_startCameraAfterInit(t, c, supported)
                    ELSE Return(t, c)
    IN  IF ~ok THEN after([s EXCEPT !.error = "modelLoad", !.isModelLoading = FALSE])
        ELSE CASE pc = "init.forVisionTasks" ->
                    [s EXCEPT !.calls[c].pc = "init.createFromOptions"]
               [] pc = "init.createFromOptions" ->
                    after([s EXCEPT !.poseLandmarkerRef = TRUE, !.isModelLoading = FALSE])

\* startCamera resumes after getUserMedia or video.play() settled; err names
\* the rejection ("ok": resolved).
ol_startCameraResumes(s, c, err) ==
    LET pc == s.calls[c].pc
    IN  IF err # "ok" THEN ol_startCameraFailed(s, c, err)
        ELSE CASE pc = "getUserMedia" ->
                    LET stream == Fresh(StreamsInUse(s))
                    IN  [s EXCEPT !.streams = @ \cup {stream}, !.streamRef = stream,
                                  !.srcObject = stream, !.calls[c].pc = "play"]
               [] pc = "play" ->
                    [s EXCEPT !.calls[c].pc = "setTimeout"]

\* startCamera after the 500 ms wait: the camera is active, the loop is started
\* with the processFrame this startCamera closed over.
ol_startCameraFinishes(s, c) ==
    requestAnimationFrame(Return([s EXCEPT !.isCameraActive = TRUE], c), s.calls[c].cap)

\* sendToBackend resumes after an api call or the assistant's speech settled.
ol_sendResumes(s, c, ok) ==
    LET pc == s.calls[c].pc
        finally(t) == Return([t EXCEPT !.isProcessing = FALSE], c)
    IN  IF ~ok THEN finally([s EXCEPT !.error = "analysis"])
        ELSE CASE pc = "createSession" ->
                    LET id == s.nextSession + 1
                    IN  Request([s EXCEPT !.nextSession = id, !.sessionIdRef = id,
                                          !.calls[c].sid = id,
                                          !.calls[c].pc = "processPoseData"],
                                "processPoseData", id)
               [] pc = "processPoseData" ->
                    Request([s EXCEPT !.calls[c].pc = "getSessionResults"],
                            "getSessionResults", s.calls[c].sid)
               [] pc = "getSessionResults" ->
                    [s EXCEPT !.sessionResults = s.calls[c].sid, !.calls[c].pc = "speak"]
               [] pc = "speak" -> finally(s)

ol_startTask(s) ==
    [s EXCEPT !.taskStatus = "ready", !.timeRemaining = TASK_DURATION,
              !.taskStartTimeRef = 0, !.audioPlayed = TRUE]

ol_resetTask(s) ==
    LET s1 == IF s.timerIntervalRef # 0
              THEN [clearInterval(s, s.timerIntervalRef) EXCEPT !.timerIntervalRef = 0]
              ELSE s
    IN  [s1 EXCEPT !.taskStatus = "idle", !.timeRemaining = TASK_DURATION,
                   !.audioPlayed = FALSE, !.taskStartTimeRef = 0,
                   !.recordedFramesRef = << >>, !.sessionResults = 0,
                   !.sessionIdRef = 0]

\* ================================================================= events
RH == "RaiseHandTask"
OL == "OneLegStanceTask"

\* probe while a component is mounted: no detector is applied on its own.
NoProbe == [fn |-> "none", input |-> << >>, output |-> "none"]

Frame == UNCHANGED << mounted, mediaSupported, probe >>

\* The camera page is opened: one of the two task components is mounted.
\* OneLegStanceTask's mount effect calls initializePoseLandmarker().
Init ==
    /\ mounted \in {RH, OL}
    /\ mediaSupported \in BOOLEAN
    /\ clock = 0
    /\ pose = "neutral"
    /\ w = IF mounted = OL
           THEN ol_initializePoseLandmarker(InitialComponent, "initializePoseLandmarker",
                                            ol_Render(InitialComponent))
           ELSE InitialComponent
    /\ ev = "other"
    /\ probe = NoProbe

\* The calls of OneLegStanceTask's startCamera that have not returned.  A call
\* that returns from a click, or when a promise it awaited settles, has failed
\* (ev' = "startFailed"): one that succeeds returns from its 500 ms timer.
StartsInFlight(s) == Cardinality({c \in 1..MaxCalls : s.calls[c].fn = "startCamera"})

\* The user clicks "Start Camera" (shown while the camera is off; in
\* OneLegStanceTask disabled while the model loads).
ClickStartCamera ==
    /\ \/ /\ mounted = RH /\ ~w.isRunning /\ Bounded(rh_start(w)) /\ w' = Canon(rh_start(w))
          /\ ev' = "other"
       \/ /\ mounted = OL /\ ~w.isCameraActive /\ ~w.isModelLoading
          /\ Bounded(ol_startCamera(w, mediaSupported))
          /\ w' = Canon(ol_startCamera(w, mediaSupported))
          /\ ev' = IF StartsInFlight(w') = StartsInFlight(w)
                   THEN "startFailed" ELSE "other"
    /\ UNCHANGED << clock, pose >> /\ Frame

\* The user clicks "Begin Task" (shown while the camera is on and the task idle).
ClickBeginTask ==
    /\ w.taskStatus = "idle"
    /\ \/ mounted = RH /\ w.isRunning /\ w' = rh_beginTask(w)
       \/ mounted = OL /\ w.isCameraActive /\ w' = ol_startTask(w)
    /\ ev' = "other"
    /\ UNCHANGED << clock, pose >> /\ Frame

\* The user clicks "Try Again" (success, failed) or "Cancel" (ready).
ClickResetTask ==
    /\ w.taskStatus \in {"success", "failed", "ready"}
    /\ \/ mounted = RH /\ w.isRunning /\ w' = Canon(rh_resetTask(w))
       \/ mounted = OL /\ w.isCameraActive /\ w' = Canon(ol_resetTask(w))
    /\ ev' = "other"
    /\ UNCHANGED << clock, pose >> /\ Frame

\* The user clicks "Stop Camera" (shown while the camera is on).
ClickStopCamera ==
    /\ \/ mounted = RH /\ w.isRunning /\ w' = Canon(rh_stop(w))
       \/ mounted = OL /\ w.isCameraActive /\ w' = Canon(ol_resetTask(ol_stopCamera(w)))
    /\ ev' = "other"
    /\ UNCHANGED << clock, pose >> /\ Frame

\* The user closes the error alert of OneLegStanceTask.
CloseErrorAlert ==
    /\ mounted = OL /\ w.error # "none"
    /\ w' = [w EXCEPT !.error = "none"]
    /\ ev' = "other"
    /\ UNCHANGED << clock, pose >> /\ Frame

\* The user changes pose in front of the camera.
UserMoves ==
    /\ mounted \in {RH, OL}
    /\ \E p \in PoseNames \ {pose} : pose' = p
    /\ ev' = "other"
    /\ UNCHANGED << clock, w >> /\ Frame

\* Time passes.
Tick ==
    /\ mounted \in {RH, OL}
    /\ clock + TickMs <= MaxClockMs
    /\ clock' = clock + TickMs
    /\ ev' = "other"
    /\ UNCHANGED << pose, w >> /\ Frame

Outcomes(pc) ==
    IF pc = "getUserMedia" THEN {"ok", "NotAllowedError", "NotFoundError", "Error"}
    ELSE {"ok", "Error"}

\* What an async call does when the promise it awaits settles with outcome o.
Resumes(s, c, o, supported, p, now) ==
    LET call == s.calls[c]
    IN  CASE call.fn = "start" -> rh_startResumes(s, c, o = "ok", supported, p, now)
          [] call.fn = "sendToBackend" ->
                IF mounted = RH THEN rh_sendResumes(s, c, o = "ok")
                ELSE ol_sendResumes(s, c, o = "ok")
          [] call.pc \in {"init.forVisionTasks", "init.createFromOptions"} ->
                ol_initResumes(s, c, o = "ok", supported)
          [] call.fn = "startCamera" -> ol_startCameraResumes(s, c, o)

\* A promise an async call awaits (model download, camera, video.play(), a
\* fetch, the assistant's speech) settles and the call runs to its next await.
\* In RaiseHandTask the last step of start() calls processFrame() itself.
AwaitSettles ==
    /\ mounted \in {RH, OL}
    /\ \E c \in 1..MaxCalls :
         /\ w.calls[c].fn # "free" /\ w.calls[c].pc # "setTimeout"
         /\ \E o \in Outcomes(w.calls[c].pc) :
              LET t == Resumes(w, c, o, mediaSupported, pose, DateNow)
              IN  /\ Bounded(t)
                  /\ w' = Canon(t)
                  /\ ev' = IF w.calls[c].fn = "start" /\ w.calls[c].pc = "play" /\ o = "ok"
                           THEN "frame"
                           ELSE IF StartsInFlight(t) < StartsInFlight(w)
                           THEN "startFailed" ELSE "other"
    /\ UNCHANGED << clock, pose >> /\ Frame

\* The browser runs a callback given to requestAnimationFrame: processFrame,
\* with the values that closure captured.
AnimationFrame ==
    /\ mounted \in {RH, OL}
    /\ \E r \in w.rafQueue :
         LET s == [w EXCEPT !.rafQueue = @ \ {r}]
             t == IF mounted = RH THEN rh_processFrame(s, r.cap, pose, DateNow)
                  ELSE ol_processFrame(s, r.cap, pose, PerformanceNow, DateNow)
         IN  Bounded(t) /\ w' = Canon(t)
    /\ ev' = "frame"
    /\ UNCHANGED << clock, pose >> /\ Frame

\* The timers the browser holds: the setTimeout of every startCamera call that
\* waits in it, and the intervals that have not been cleared.
PendingTimers(s) ==
    {[kind |-> "timeout", call |-> c] : c \in {d \in 1..MaxCalls : s.calls[d].pc = "setTimeout"}}
    \cup {[kind |-> "interval", call |-> 0] : t \in s.timers}

\* The browser runs a timer callback: the 500 ms wait of startCamera (once), or
\* the countdown of an interval that has not been cleared.
TimerFires ==
    /\ mounted \in {RH, OL}
    /\ \E tm \in PendingTimers(w) :
         LET t == IF tm.kind = "timeout"
                  THEN ol_startCameraFinishes(w, tm.call)
                  ELSE IF mounted = RH THEN rh_countdown(w, DateNow)
                  ELSE ol_countdown(w, DateNow)
         IN  Bounded(t) /\ w' = Canon(t)
    /\ ev' = "other"
    /\ UNCHANGED << clock, pose >> /\ Frame

Next ==
    \/ ClickStartCamera
    \/ ClickBeginTask
    \/ ClickResetTask
    \/ ClickStopCamera
    \/ CloseErrorAlert
    \/ UserMoves
    \/ Tick
    \/ AwaitSettles
    \/ AnimationFrame
    \/ TimerFires

Spec == Init /\ [][Next]_vars

\* The browser keeps running what it has scheduled: promises settle, animation
\* frames and timers fire.  The user is under no obligation.
FairSpec ==
    Spec /\ WF_vars(AwaitSettles) /\ WF_vars(AnimationFrame) /\ WF_vars(TimerFires)

\* ============================================= the detectors on their own
\* detectHandRaised and detectOneLegStance are pure functions of the landmarks.
\* HandSpec and StanceSpec apply each to every input of a grid that straddles
\* its thresholds: a landmark is missing, or has a y around the other's and a
\* visibility just below or at the threshold.
Bool(b) == IF b THEN "true" ELSE "false"

LmGrid(ys, vs) == {NoLm} \cup {Lm(y, v) : y \in ys, v \in vs}

HandInputs ==
    [LEFT_WRIST : LmGrid({299, 300, 301}, {HAND_MIN_VISIBILITY - 1, HAND_MIN_VISIBILITY}),
     RIGHT_WRIST : LmGrid({299, 300, 301}, {HAND_MIN_VISIBILITY - 1, HAND_MIN_VISIBILITY}),
     LEFT_SHOULDER : LmGrid({300}, {HAND_MIN_VISIBILITY - 1, HAND_MIN_VISIBILITY}),
     RIGHT_SHOULDER : LmGrid({300}, {HAND_MIN_VISIBILITY - 1, HAND_MIN_VISIBILITY})]

StanceInputs ==
    {<< >>} \cup
    {<< lm >> : lm \in
       [LEFT_ANKLE : LmGrid({900, 900 + ANKLE_HEIGHT_THRESHOLD, 901 + ANKLE_HEIGHT_THRESHOLD},
                            {STANCE_MIN_VISIBILITY - 1, STANCE_MIN_VISIBILITY}),
        RIGHT_ANKLE : LmGrid({900, 900 + ANKLE_HEIGHT_THRESHOLD, 901 + ANKLE_HEIGHT_THRESHOLD},
                             {STANCE_MIN_VISIBILITY - 1, STANCE_MIN_VISIBILITY}),
        LEFT_HIP : LmGrid({500, 501}, {STANCE_MIN_VISIBILITY - 1, STANCE_MIN_VISIBILITY}),
        RIGHT_HIP : LmGrid({500, 501}, {STANCE_MIN_VISIBILITY - 1, STANCE_MIN_VISIBILITY})]}

ProbeInit(fn, inputs) ==
    /\ mounted = fn
    /\ mediaSupported = FALSE
    /\ clock = 0
    /\ pose = "none"
    /\ w = InitialComponent
    /\ ev = "other"
    /\ probe \in [fn : {fn}, input : inputs, output : {"pending"}]

HandInit == ProbeInit("detectHandRaised", HandInputs)
StanceInit == ProbeInit("detectOneLegStance", StanceInputs)

CallDetectHandRaised ==
    /\ mounted = "detectHandRaised" /\ probe.output = "pending"
    /\ probe' = [probe EXCEPT !.output = Bool(detectHandRaised(probe.input))]
    /\ UNCHANGED << mounted, mediaSupported, clock, pose, w, ev >>

CallDetectOneLegStance ==
    /\ mounted = "detectOneLegStance" /\ probe.output = "pending"
    /\ probe' = [probe EXCEPT !.output = Bool(detectOneLegStance(probe.input))]
    /\ UNCHANGED << mounted, mediaSupported, clock, pose, w, ev >>

HandSpec == HandInit /\ [][CallDetectHandRaised]_vars
StanceSpec == StanceInit /\ [][CallDetectOneLegStance]_vars

\* ================================================================= claims
\* The frame shows a wrist above the same-side shoulder, with both shoulders
\* and both wrists clearly visible.
HandHeldUp ==
    /\ Len(LandmarksOf(pose)) > 0
    /\ LET lm == LandmarksOf(pose)[1]
       IN  /\ \A n \in {"LEFT_WRIST", "RIGHT_WRIST", "LEFT_SHOULDER", "RIGHT_SHOULDER"} :
                lm[n].ok /\ lm[n].vis >= HAND_MIN_VISIBILITY
           /\ \/ lm.LEFT_WRIST.y < lm.LEFT_SHOULDER.y
              \/ lm.RIGHT_WRIST.y < lm.RIGHT_SHOULDER.y

\* The frame shows one ankle more than 0.01 higher than the other, with both
\* hips and both ankles visible.
OneFootLifted ==
    /\ Len(LandmarksOf(pose)) > 0
    /\ LET lm == LandmarksOf(pose)[1]
       IN  /\ \A n \in {"LEFT_ANKLE", "RIGHT_ANKLE", "LEFT_HIP", "RIGHT_HIP"} :
                lm[n].ok /\ lm[n].vis >= STANCE_MIN_VISIBILITY
           /\ Abs(lm.LEFT_ANKLE.y - lm.RIGHT_ANKLE.y) > ANKLE_HEIGHT_THRESHOLD

\* No callback is scheduled and no async call is in flight: the page does
\* nothing more until the user clicks.
Quiescent ==
    /\ w.rafQueue = {} /\ PendingTimers(w) = {}
    /\ \A c \in 1..MaxCalls : w.calls[c].fn = "free"

\* C1: in RaiseHandTask, once the camera runs and Begin Task has set the status
\* to 'ready', a user who keeps a wrist above the same-side shoulder (shoulders
\* and wrists visible) eventually sees the status become 'detecting', with the
\* 10-second countdown started.  (The obligation ends if the user lowers the
\* hand, cancels or stops the camera.)
C1_ReadyRaisedLeadsToDetecting ==
    (mounted = RH /\ w.isRunning /\ w.taskStatus = "ready" /\ HandHeldUp)
      ~> \/ w.taskStatus = "detecting" /\ w.timers # {} /\ w.timeRemaining = TASK_DURATION
         \/ ~HandHeldUp
         \/ ~w.isRunning
         \/ w.taskStatus = "idle"

\* C1's case: the camera runs, the status is 'ready', the hand is held up, and
\* the page has nothing scheduled that could ever look at a frame.
C1_ReadyRaisedStuck ==
    mounted = RH /\ w.isRunning /\ w.taskStatus = "ready" /\ HandHeldUp /\ Quiescent

\* C2: in OneLegStanceTask, once the camera is active and Begin Task has set
\* the status to 'ready', a user who keeps one ankle more than 0.01 above the
\* other (hips and ankles visible) eventually sees the status become
\* 'detecting', with the countdown timer started.
C2_ReadyStanceLeadsToDetecting ==
    (mounted = OL /\ w.isCameraActive /\ w.taskStatus = "ready" /\ OneFootLifted)
      ~> \/ w.taskStatus = "detecting" /\ w.timers # {}
         \/ ~OneFootLifted
         \/ ~w.isCameraActive
         \/ w.taskStatus = "idle"

\* C2's case: the camera is active, the status is 'ready', one foot is lifted,
\* and the page has nothing scheduled that could ever look at a frame.
C2_ReadyStanceStuck ==
    mounted = OL /\ w.isCameraActive /\ w.taskStatus = "ready" /\ OneFootLifted /\ Quiescent

\* Every processFrame closure the page ever runs captured the camera flag of a
\* render in which the camera was off (Start Camera is only shown then), so no
\* frame passes the guard: the status never leaves 'idle' and 'ready', no
\* countdown interval exists, no frame is recorded, no request is sent.
NeverDetects ==
    mounted \in {RH, OL} =>
        /\ w.taskStatus \in {"idle", "ready"}
        /\ w.timers = {} /\ w.timerIntervalRef = 0 /\ w.taskStartTimeRef = 0
        /\ w.recordedFramesRef = << >> /\ w.requests = << >>
        /\ ~w.isProcessing /\ w.sessionResults = 0
        /\ \A r \in w.rafQueue : ~r.cap.active
        /\ \A c \in 1..MaxCalls : ~w.calls[c].cap.active

HandSeen(n) == probe.input[n].ok /\ probe.input[n].vis >= HAND_MIN_VISIBILITY
LeftWristAbove ==
    /\ probe.input.LEFT_WRIST.ok /\ probe.input.LEFT_SHOULDER.ok
    /\ probe.input.LEFT_WRIST.y < probe.input.LEFT_SHOULDER.y
RightWristAbove ==
    /\ probe.input.RIGHT_WRIST.ok /\ probe.input.RIGHT_SHOULDER.ok
    /\ probe.input.RIGHT_WRIST.y < probe.input.RIGHT_SHOULDER.y

NONE == 0 - 1
Landmarks(n, bad) == [isArray |-> TRUE, length |-> n, notNumberAt |-> bad]
NotAnArray == [isArray |-> FALSE, length |-> 0, notNumberAt |-> NONE]
PoseFrame(fn, ts, lms) ==
    [isNull |-> FALSE, frame_number |-> fn, timestamp |-> ts, landmarks |-> lms]
NullFrame ==
    [isNull |-> TRUE, frame_number |-> NONE, timestamp |-> NONE,
     landmarks |-> NotAnArray]

\* Frames a file may hold: two well formed ones, and one for each way of
\* being malformed (a field missing, landmarks not an array, one landmark
\* short, the first or a later landmark without numbers, a null entry).
FileFrames ==
    { PoseFrame(0, 0, Landmarks(LANDMARK_COUNT, NONE)),
      PoseFrame(1, 33, Landmarks(LANDMARK_COUNT, NONE)),
      PoseFrame(NONE, 0, Landmarks(LANDMARK_COUNT, NONE)),
      PoseFrame(1, NONE, Landmarks(LANDMARK_COUNT, NONE)),
      PoseFrame(1, 33, NotAnArray),
      PoseFrame(1, 33, Landmarks(LANDMARK_COUNT - 1, NONE)),
      PoseFrame(0, 0, Landmarks(LANDMARK_COUNT, 0)),
      PoseFrame(1, 33, Landmarks(LANDMARK_COUNT, 1)),
      NullFrame }

RECURSIVE SeqsUpTo(_, _)
SeqsUpTo(S, n) ==
    IF n = 0 THEN {<< >>}
    ELSE LET shorter == SeqsUpTo(S, n - 1)
         IN  shorter \cup {Append(q, x) : q \in {r \in shorter : Len(r) = n - 1}, x \in S}

\* What a chosen file holds: text that is no JSON, JSON that is no array, or
\* an array of frames.
FileContents ==
    {[kind |-> "notJSON", json |-> << >>], [kind |-> "object", json |-> << >>]}
      \cup {[kind |-> "array", json |-> q] : q \in SeqsUpTo(FileFrames, MaxFrames)}

\* The try block of reader.onload: the error it throws, or "none".
rp_validate(file) ==
    IF file.kind = "notJSON" THEN "SyntaxError"
    ELSE IF file.kind # "array" THEN "JSON must be an array of pose frames"
    ELSE IF Len(file.json) = 0 THEN "JSON array is empty"
    ELSE LET firstFrame == file.json[1] IN
         IF firstFrame.isNull THEN "TypeError"
         ELSE IF firstFrame.frame_number = NONE   \* `!v && v !== 0`
              THEN "Each frame must have a frame_number field"
         ELSE IF firstFrame.timestamp = NONE
              THEN "Each frame must have a timestamp field"
         ELSE IF ~firstFrame.landmarks.isArray
              THEN "Each frame must have a landmarks array"
         ELSE IF firstFrame.landmarks.length # LANDMARK_COUNT
              THEN "Each frame must have exactly 33 landmarks"
         ELSE IF firstFrame.landmarks.notNumberAt = 0
              THEN "Each landmark must have x, y, z, and visibility as numbers"
         ELSE "none"

InitialReplayPage ==
    [poseData |-> << >>, fileName |-> "", error |-> "none", reading |-> 0]

\* handleFileUpload up to reader.readAsText(file).
rp_handleFileUpload(s, name) ==
    [s EXCEPT !.error = "none", !.fileName = name, !.reading = @ + 1]

\* reader.onload.
rp_onload(s, file) ==
    LET err == rp_validate(file) IN
    IF err = "none"
    THEN [s EXCEPT !.poseData = file.json, !.error = "none", !.reading = @ - 1]
    ELSE [s EXCEPT !.poseData = << >>, !.error = err, !.reading = @ - 1]

\* reader.onerror.
rp_onerror(s) ==
    [s EXCEPT !.poseData = << >>, !.error = "Failed to read file", !.reading = @ - 1]

rp_handleClear(s) ==
    [s EXCEPT !.poseData = << >>, !.fileName = "", !.error = "none"]

RP == "ReplayPage"

ReplayPageInit ==
    /\ mounted = RP
    /\ mediaSupported = FALSE
    /\ clock = 0
    /\ pose = "none"
    /\ w = InitialReplayPage
    /\ ev = "other"
    /\ probe = NoProbe

\* The user picks a file in the upload section, shown while no data is loaded.
SelectFile ==
    /\ mounted = RP /\ Len(w.poseData) = 0 /\ w.reading < MaxCalls
    /\ \E name \in {"a.json", "b.json"} : w' = rp_handleFileUpload(w, name)
    /\ ev' = "select"
    /\ UNCHANGED << clock, pose >> /\ Frame

\* A read finishes with the text of the file, whatever the file holds.
ReaderLoads ==
    /\ mounted = RP /\ w.reading > 0
    /\ \E file \in FileContents : w' = rp_onload(w, file)
    /\ ev' = "onload"
    /\ UNCHANGED << clock, pose >> /\ Frame

ReaderFails ==
    /\ mounted = RP /\ w.reading > 0
    /\ w' = rp_onerror(w)
    /\ ev' = "onerror"
    /\ UNCHANGED << clock, pose >> /\ Frame

\* "Load Different File", shown while data is loaded.
ClickClear ==
    /\ mounted = RP /\ Len(w.poseData) > 0
    /\ w' = rp_handleClear(w)
    /\ ev' = "clear"
    /\ UNCHANGED << clock, pose >> /\ Frame

ReplayPageNext == SelectFile \/ ReaderLoads \/ ReaderFails \/ ClickClear

ReplayPageSpec == ReplayPageInit /\ [][ReplayPageNext]_vars

\* A frame as the replay guide requires it.
WellFormedFrame(f) ==
    /\ ~f.isNull
    /\ f.frame_number # NONE /\ f.timestamp # NONE
    /\ f.landmarks.isArray /\ f.landmarks.length = LANDMARK_COUNT
    /\ f.landmarks.notNumberAt = NONE

\* C13: ReplayPage holds pose data only if the file read was a non-empty JSON
\* array in which each frame has frame_number, timestamp and exactly 33
\* landmarks whose x, y, z and visibility are numbers; while no data is held
\* after a read that was refused, an error message is shown.
C13_AcceptedOnlyIfEachFrameWellFormed ==
    mounted = RP =>
        /\ \A i \in 1..Len(w.poseData) : WellFormedFrame(w.poseData[i])
        /\ (ev \in {"onload", "onerror"} /\ Len(w.poseData) = 0) => w.error # "none"

\* C13's failing case: the data held has a well formed first frame and a
\* second frame that is not.
C13_MalformedFrameAccepted ==
    /\ mounted = RP /\ Len(w.poseData) = 2
    /\ WellFormedFrame(w.poseData[1]) /\ ~WellFormedFrame(w.poseData[2])

\* ================================================================ PoseReplay
\* The player of recorded poses.  Time is in ms; the playback speed is kept in
\* halves (1, 2, 3, 4 for 0.5x, 1x, 1.5x, 2x) and elapsed times in half-ms, so
\* that `elapsedMs = (currentTime - startTime) * playbackSpeed` stays a whole
\* number (floating-point rounding is not modelled).
PR == "PoseReplay"
SPEEDS == << 1, 2, 3, 4 >>

\* Recordings the player may be given: up to MaxReplayFrames frames, the first
\* at 1 ms, each next one -1 to MaxGap ms later (-1: timestamps out of order).
RECURSIVE Recordings(_)
Recordings(n) ==
    IF n = 1 THEN {<< [timestamp |-> 1] >>}
    ELSE LET shorter == Recordings(n - 1)
         IN  shorter \cup {Append(q, [timestamp |-> q[Len(q)].timestamp + g]) :
                             q \in {r \in shorter : Len(r) = n - 1},
                             g \in (0 - 1)..MaxGap}

\* progress, a percentage: whole when it can be, num/den otherwise (0/0 is NaN).
Percent(num, den) ==
    IF den # 0 /\ num % den = 0 THEN [num |-> num \div den, den |-> 1]
    ELSE [num |-> num, den |-> den]

InitialPoseReplay(data) ==
    [ poseData |-> data,
      isPlaying |-> FALSE, currentFrame |-> 0, playbackSpeed |-> 2,
      progress |-> Percent(0, 1),
      animationFrameRef |-> 0, startTimeRef |-> 0,
      rafQueue |-> {},
      onCompleteCalls |-> 0,       \* calls of onComplete since playback started
      \* the last control used, and the mode it met
      lastUser |-> [name |-> "none", wasPlaying |-> FALSE] ]

pr_stopAnimation(s) ==
    LET t == IF s.animationFrameRef # 0
             THEN [cancelAnimationFrame(s, s.animationFrameRef)
                      EXCEPT !.animationFrameRef = 0]
             ELSE s
    IN  [t EXCEPT !.startTimeRef = 0]

\* startAnimation of the render whose effect runs: animate closes over that
\* render's currentFrame and playbackSpeed.
pr_startAnimation(s, now) ==
    IF Len(s.poseData) = 0 THEN s
    ELSE requestAnimationFrame(
             [s EXCEPT !.startTimeRef = now, !.onCompleteCalls = 0],
             [startFrameIndex |-> s.currentFrame, playbackSpeed |-> s.playbackSpeed])

\* The effect on [isPlaying, playbackSpeed]: the cleanup of the previous run,
\* then the body.
pr_useEffect(s, now) ==
    LET cleaned == IF s.animationFrameRef # 0
                   THEN cancelAnimationFrame(s, s.animationFrameRef)
                   ELSE s
    IN  IF Len(s.poseData) = 0 THEN cleaned
        ELSE IF s.isPlaying THEN pr_startAnimation(cleaned, now)
        ELSE pr_stopAnimation(cleaned)

\* The render after state updates: the effect runs only if a dependency changed.
pr_Render(old, new, now) ==
    IF old.isPlaying # new.isPlaying \/ old.playbackSpeed # new.playbackSpeed
    THEN pr_useEffect(new, now)
    ELSE new

\* `frameTimestamp <= elapsedMs`, both sides doubled; the variant shows a frame
\* only once its time has passed.
pr_due_Strictly(frameTimestamp, elapsedHalfMs) == 2 * frameTimestamp < elapsedHalfMs
pr_due(frameTimestamp, elapsedHalfMs) == 2 * frameTimestamp <= elapsedHalfMs

\* The for loop of animate: the last frame from startFrameIndex on that is due,
\* stopping at the first that is not.
pr_findFrame(poseData, startFrameIndex, elapsedHalfMs) ==
    LET startTimestamp == poseData[startFrameIndex + 1].timestamp
        RECURSIVE Scan(_, _)
        Scan(i, frameIndex) ==
            IF i >= Len(poseData) THEN frameIndex
            ELSE IF pr_due(poseData[i + 1].timestamp - startTimestamp, elapsedHalfMs)
                 THEN Scan(i + 1, i)
                 ELSE frameIndex
    IN  Scan(startFrameIndex, startFrameIndex)

\* `frameIndex < poseData.length - 1`: the animation goes on; the variant never
\* lets it end.
pr_continues_Always(frameIndex, length) == TRUE
pr_continues(frameIndex, length) == frameIndex < length - 1

\* animate(currentTime), the callback of requestAnimationFrame, and the render
\* that follows its state updates.
pr_animate(s, cap, currentTime) ==
    LET s1 == IF s.startTimeRef = 0 THEN [s EXCEPT !.startTimeRef = currentTime] ELSE s
        elapsedHalfMs == (currentTime - s1.startTimeRef) * cap.playbackSpeed
        frameIndex == pr_findFrame(s.poseData, cap.startFrameIndex, elapsedHalfMs)
        s2 == [s1 EXCEPT !.currentFrame = frameIndex,
                         !.progress = Percent(frameIndex * 100, Len(s.poseData) - 1)]
    IN  IF pr_continues(frameIndex, Len(s.poseData))
        THEN requestAnimationFrame(s2, cap)
        ELSE pr_Render(s, [s2 EXCEPT !.isPlaying = FALSE, !.onCompleteCalls = @ + 1],
                       currentTime)

pr_handlePlayPause(s, now) ==
    pr_Render(s, [s EXCEPT !.isPlaying = ~s.isPlaying], now)

pr_handleStop(s, now) ==
    pr_Render(s, [s EXCEPT !.isPlaying = FALSE, !.currentFrame = 0,
                           !.progress = Percent(0, 1)], now)

pr_handleRestart(s, now) ==
    pr_Render(s, [s EXCEPT !.currentFrame = 0, !.progress = Percent(0, 1),
                           !.isPlaying = TRUE], now)

pr_handleSpeedChange(s, now) ==
    LET currentIndex == CHOOSE i \in 1..Len(SPEEDS) : SPEEDS[i] = s.playbackSpeed
        nextIndex == (currentIndex % Len(SPEEDS)) + 1
    IN  pr_Render(s, [s EXCEPT !.playbackSpeed = SPEEDS[nextIndex]], now)

pr_handleSliderChange(s, value) ==
    [s EXCEPT !.currentFrame = (value * (Len(s.poseData) - 1)) \div 100,
              !.progress = Percent(value, 1)]

\* Handles are opaque (see Canon): the pending frame is numbered 1, a ref to a
\* frame that ran or was cancelled holds STALE.
pr_Canon(s) ==
    LET frames == {r.id : r \in s.rafQueue}
    IN  [s EXCEPT !.rafQueue = {[r EXCEPT !.id = Rank(frames, r.id)] : r \in @},
                  !.animationFrameRef = Rank(frames, @)]

pr_Bounded(s) ==
    /\ FramesInUse(s) \subseteq 1..MaxHandles
    /\ s.onCompleteCalls <= MaxCompletions

PoseReplayInit ==
    /\ mounted = PR
    /\ mediaSupported = FALSE
    /\ clock = 1
    /\ pose = "none"
    /\ \E data \in Recordings(MaxReplayFrames) : w = InitialPoseReplay(data)
    /\ ev = "other"
    /\ probe = NoProbe

PlayerStep(t, name) ==
    /\ pr_Bounded(t)
    /\ w' = pr_Canon([t EXCEPT !.lastUser = [name |-> name,
                                             wasPlaying |-> w.isPlaying]])
    /\ ev' = name
    /\ UNCHANGED << clock, pose >> /\ Frame

ClickPlayPause == mounted = PR /\ PlayerStep(pr_handlePlayPause(w, PerformanceNow), "playPause")
ClickStop == mounted = PR /\ PlayerStep(pr_handleStop(w, PerformanceNow), "stop")
ClickRestart == mounted = PR /\ PlayerStep(pr_handleRestart(w, PerformanceNow), "restart")
ClickSpeed == mounted = PR /\ PlayerStep(pr_handleSpeedChange(w, PerformanceNow), "speed")

\* The slider is disabled while playing.
MoveSlider ==
    /\ mounted = PR /\ ~w.isPlaying
    /\ \E value \in {0, 50, 100} : PlayerStep(pr_handleSliderChange(w, value), "slider")

PlayerTick ==
    /\ mounted = PR /\ clock < MaxReplayClock
    /\ clock' = clock + 1
    /\ ev' = "tick"
    /\ UNCHANGED << pose, w >> /\ Frame

\* The browser runs a scheduled animation callback with the current time.
PlayerAnimationFrame ==
    /\ mounted = PR
    /\ \E r \in w.rafQueue :
         LET t == pr_animate([w EXCEPT !.rafQueue = @ \ {r}], r.cap, PerformanceNow)
         IN  pr_Bounded(t) /\ w' = pr_Canon(t)
    /\ ev' = "frame"
    /\ UNCHANGED << clock, pose >> /\ Frame

PoseReplayNext ==
    \/ ClickPlayPause \/ ClickStop \/ ClickRestart \/ ClickSpeed \/ MoveSlider
    \/ PlayerTick \/ PlayerAnimationFrame

PoseReplaySpec == PoseReplayInit /\ [][PoseReplayNext]_vars

\* ------------------------------------------------------- PoseReplay claims
NonDecreasing(data) ==
    \A i \in 1..(Len(data) - 1) : data[i].timestamp <= data[i + 1].timestamp

\* The largest index i >= k whose timestamp lies no more than the elapsed time
\* (in half-ms) after frame k's.
LatestDue(data, k, elapsedHalfMs) ==
    LET due == {i \in k..(Len(data) - 1) :
                  2 * (data[i + 1].timestamp - data[k + 1].timestamp) <= elapsedHalfMs}
    IN  CHOOSE i \in due : \A j \in due : j <= i

\* C14: once Restart has been pressed, whatever the player was doing, it is
\* playing with frame 0 displayed, and an animation frame that runs next, before
\* any time has passed, shows the start of the recording (frame 0, or the last
\* frame that shares frame 0's timestamp), not a later frame.
C14_RestartReplaysFromStart ==
    [][(mounted = PR /\ ev = "restart" /\ NonDecreasing(w.poseData)) =>
          /\ w.isPlaying /\ w.currentFrame = 0
          /\ (ev' = "frame" => w'.currentFrame = LatestDue(w.poseData, 0, 0))]_vars

\* C14's failing case: Restart was pressed during playback, and the animation
\* still scheduled is the one started earlier.
C14_RestartWhilePlaying ==
    /\ mounted = PR /\ ev = "restart" /\ w.lastUser.wasPlaying
    /\ NonDecreasing(w.poseData)
    /\ \E r \in w.rafQueue : w.startTimeRef < clock

\* C15: when an animation frame runs during playback that started at frame k
\* with speed s, over a recording whose timestamps do not decrease, the frame
\* displayed is the largest index i >= k with timestamp[i] - timestamp[k] <=
\* t * s, t being the time since the playback started; and the displayed index
\* is not lower than before.
C15_FrameShownIsLatestDue ==
    [][(mounted = PR /\ ev' = "frame" /\ NonDecreasing(w.poseData)) =>
          \A r \in w.rafQueue :
              /\ w'.currentFrame =
                     LatestDue(w.poseData, r.cap.startFrameIndex,
                               (clock - w.startTimeRef) * r.cap.playbackSpeed)
              /\ w'.currentFrame >= w.currentFrame]_vars

\* C15's case: playback at 0.5x from frame 0 has been running for 2 ms or more
\* and shows a frame after the first, with more to come.
C15_MidPlaybackHalfSpeed ==
    /\ mounted = PR /\ ev = "frame" /\ w.isPlaying /\ NonDecreasing(w.poseData)
    /\ w.currentFrame > 0 /\ clock - w.startTimeRef >= 2
    /\ \E r \in w.rafQueue : r.cap.startFrameIndex = 0 /\ r.cap.playbackSpeed = 1

\* C16: an animation frame that displays the last frame ends the playback:
\* isPlaying is false, no animation frame is scheduled, and onComplete has been
\* called exactly once since the playback started; before that it has not been
\* called, and a player that is not playing has no animation frame scheduled.
C16_FinishesAtLastFrame ==
    [][(mounted = PR /\ ev' = "frame") =>
          /\ w'.currentFrame = Len(w.poseData) - 1 =>
                (~w'.isPlaying /\ w'.rafQueue = {} /\ w'.onCompleteCalls = 1)
          /\ w'.currentFrame < Len(w.poseData) - 1 =>
                (w'.isPlaying /\ w'.onCompleteCalls = 0)
          /\ (~w'.isPlaying => w'.rafQueue = {})]_vars

\* C16's case: a recording of several frames has been played to its last frame.
C16_PlayedToTheEnd ==
    /\ mounted = PR /\ ev = "frame" /\ Len(w.poseData) > 1
    /\ w.currentFrame = Len(w.poseData) - 1
    /\ ~w.isPlaying /\ w.onCompleteCalls = 1

\* C17: from the moment Stop is pressed until another control is used, the
\* player is not playing, shows frame 0 with progress 0, and has no animation
\* callback scheduled that could overwrite them.
C17_StopResetsAndStays ==
    (mounted = PR /\ w.lastUser.name = "stop") =>
        /\ ~w.isPlaying /\ w.currentFrame = 0 /\ w.progress = Percent(0, 1)
        /\ w.rafQueue = {}

\* C17's case: Stop was pressed during playback, and time has passed since.
C17_StoppedWhilePlaying ==
    /\ mounted = PR /\ w.lastUser = [name |-> "stop", wasPlaying |-> TRUE]
    /\ ev = "tick"

\* ================================================= the session list pages
\* AdminDashboard and Results list the sessions of the backend and let the
\* user refresh the list, delete a session and download its report.  A call
\* of the api waits for the server ("sent"), then for its answer to be
\* delivered ("answered"); the handler that made it resumes on delivery.
AD == "AdminDashboard"
RS == "Results"

SessionIds == 1..MaxSessions
MockAges == {5, 16}

\* The sessions the backend holds when the page opens.
Backends == {[id \in SessionIds |-> [id |-> id, status |-> st[id]]] :
                st \in [SessionIds -> {"created", "processed"}]}

\* GET /sessions/: the sessions held, in id order.
RECURSIVE Listing(_, _)
Listing(held, from) ==
    IF from > MaxSessions THEN << >>
    ELSE IF \E x \in held : x.id = from
         THEN << CHOOSE x \in held : x.id = from >> \o Listing(held, from + 1)
         ELSE Listing(held, from + 1)

InitialSessionList(held) ==
    [ sessions |-> << >>, loading |-> TRUE, error |-> "none",
      calls |-> << >>,          \* api calls in flight, oldest first
      server |-> held,          \* the sessions the backend holds
      saved |-> {},             \* ids of the reports saved as files
      alert |-> "none",         \* the last alert() shown
      received |-> {},          \* ids of the reports whose request succeeded
      loaded |-> << >>,         \* the list as last (re)loaded
      deleted |-> {} ]          \* ids deleted with success since that load

ApiCall(fn, sid, cap) ==
    [fn |-> fn, sid |-> sid, cap |-> cap, pc |-> "sent", ok |-> FALSE, data |-> << >>]

Drop(seq, c) == [i \in 1..(Len(seq) - 1) |-> IF i < c THEN seq[i] ELSE seq[i + 1]]

\* loadSessions up to `await api.getAllSessions()`.
sl_loadSessions(s) ==
    [s EXCEPT !.loading = TRUE, !.error = "none",
              !.calls = Append(@, ApiCall("getAllSessions", 0, << >>))]

\* handleDeleteSession / handleDelete up to `await api.deleteSession(sessionId)`.
\* The continuation uses the `sessions` of the render that made the handler.
sl_handleDelete(s, sessionId, confirmed) ==
    IF ~confirmed THEN s
    ELSE [s EXCEPT !.calls = Append(@, ApiCall("deleteSession", sessionId, s.sessions))]

\* handleDownloadReport / handleDownload up to `await api.downloadReport(...)`.
sl_handleDownload(s, sessionId) ==
    [s EXCEPT !.calls = Append(@, ApiCall("downloadReport", sessionId, << >>))]

\* The backend handles a request.  It may fail on any of them; it cannot delete
\* a session, or build the report of one, that it does not hold.
sl_serverAnswers(s, c, ok) ==
    LET call == s.calls[c]
        answered == [call EXCEPT !.pc = "answered", !.ok = ok]
    IN  CASE call.fn = "getAllSessions" ->
               [s EXCEPT !.calls[c] =
                   [answered EXCEPT !.data = IF ok THEN Listing(s.server, 1) ELSE << >>]]
          [] call.fn = "deleteSession" ->
               [s EXCEPT !.calls[c] = answered,
                         !.server = IF ok THEN {x \in @ : x.id # call.sid} ELSE @]
          [] OTHER ->
               [s EXCEPT !.calls[c] = answered]

CanAnswerOk(s, call) ==
    CASE call.fn = "getAllSessions" -> TRUE
      [] call.fn = "deleteSession" -> \E x \in s.server : x.id = call.sid
      [] OTHER -> \E x \in s.server : x.id = call.sid /\ x.status = "processed"

\* loadSessions after the await.  AdminDashboard adds a mock childAge to each
\* session (ages[i] for the i-th); Results keeps the sessions as they come.
sl_loadSessionsResumes(s, c, page, ages) ==
    LET call == s.calls[c]
        data == [i \in 1..Len(call.data) |->
                    [id |-> call.data[i].id, status |-> call.data[i].status,
                     childAge |-> IF page = AD THEN ages[i] ELSE 0]]
        done == [s EXCEPT !.calls = Drop(@, c), !.loading = FALSE]
    IN  IF call.ok
        THEN [done EXCEPT !.sessions = data, !.loaded = data, !.deleted = {}]
        ELSE [done EXCEPT !.error = IF page = AD
                                    THEN "Failed to load sessions. Please try again."
                                    ELSE "Failed to get sessions"]

\* handleDeleteSession / handleDelete after the await.
sl_handleDeleteResumes(s, c) ==
    LET call == s.calls[c]
        keep(x) == x.id # call.sid
        done == [s EXCEPT !.calls = Drop(@, c)]
    IN  IF call.ok
        THEN [done EXCEPT !.sessions = SelectSeq(call.cap, keep),
                          !.deleted = @ \cup {call.sid}]
        ELSE [done EXCEPT !.alert = "Failed to delete session"]

\* Results.handleDownload after the await: the blob is saved through a link.
rs_handleDownloadResumes(s, c) ==
    LET call == s.calls[c]
        done == [s EXCEPT !.calls = Drop(@, c)]
    IN  IF call.ok
        THEN [done EXCEPT !.received = @ \cup {call.sid}, !.saved = @ \cup {call.sid}]
        ELSE [done EXCEPT !.alert = "Failed to download report"]

\* AdminDashboard.handleDownloadReport after the await: nothing is done with
\* the blob.
ad_handleDownloadReportResumes(s, c) ==
    LET call == s.calls[c]
        done == [s EXCEPT !.calls = Drop(@, c)]
    IN  IF call.ok
        THEN [done EXCEPT !.received = @ \cup {call.sid}]
        ELSE [done EXCEPT !.alert = "Failed to download report"]

\* The page opens: the mount effect calls loadSessions().
SessionListInit ==
    /\ mounted \in {AD, RS}
    /\ mediaSupported = FALSE
    /\ clock = 0
    /\ pose = "none"
    /\ \E held \in Backends :
         w = sl_loadSessions(InitialSessionList({held[id] : id \in SessionIds}))
    /\ ev = "other"
    /\ probe = NoProbe

Listed(s) == {s.sessions[i] : i \in 1..Len(s.sessions)}

\* The Refresh button, disabled while loading.
ClickRefresh ==
    /\ mounted \in {AD, RS} /\ ~w.loading /\ Len(w.calls) < MaxCalls
    /\ w' = sl_loadSessions(w)
    /\ ev' = "refresh"
    /\ UNCHANGED << clock, pose >> /\ Frame

\* The delete icon of a row (the table is hidden while loading), and the
\* user's answer to window.confirm.
ClickDelete ==
    /\ mounted \in {AD, RS} /\ ~w.loading /\ Len(w.calls) < MaxCalls
    /\ \E x \in Listed(w), confirmed \in BOOLEAN :
         /\ w' = sl_handleDelete(w, x.id, confirmed)
         /\ ev' = IF confirmed THEN "delete" ELSE "declined"
    /\ UNCHANGED << clock, pose >> /\ Frame

\* The download icon of a row, offered for processed sessions only.
ClickDownload ==
    /\ mounted \in {AD, RS} /\ ~w.loading /\ Len(w.calls) < MaxCalls
    /\ \E x \in Listed(w) :
         /\ x.status = "processed"
         /\ w' = sl_handleDownload(w, x.id)
    /\ ev' = "download"
    /\ UNCHANGED << clock, pose >> /\ Frame

ServerAnswers ==
    /\ mounted \in {AD, RS}
    /\ \E c \in 1..Len(w.calls), ok \in BOOLEAN :
         /\ w.calls[c].pc = "sent"
         /\ ok => CanAnswerOk(w, w.calls[c])
         /\ w' = sl_serverAnswers(w, c, ok)
    /\ ev' = "server"
    /\ UNCHANGED << clock, pose >> /\ Frame

\* An answer is delivered and the handler that awaits it runs to its end.
ResponseArrives ==
    /\ mounted \in {AD, RS}
    /\ \E c \in 1..Len(w.calls) :
         /\ w.calls[c].pc = "answered"
         /\ CASE w.calls[c].fn = "getAllSessions" ->
                   \E ages \in [1..MaxSessions -> MockAges] :
                       w' = sl_loadSessionsResumes(w, c, mounted, ages)
              [] w.calls[c].fn = "deleteSession" ->
                   w' = sl_handleDeleteResumes(w, c)
              [] OTHER ->
                   w' = IF mounted = AD THEN ad_handleDownloadReportResumes(w, c)
                        ELSE rs_handleDownloadResumes(w, c)
    /\ ev' = "response"
    /\ UNCHANGED << clock, pose >> /\ Frame

SessionListNext ==
    ClickRefresh \/ ClickDelete \/ ClickDownload \/ ServerAnswers \/ ResponseArrives

SessionListSpec == SessionListInit /\ [][SessionListNext]_vars

IdsInOrder(list) == [i \in 1..Len(list) |-> list[i].id]

\* C18: the table lists exactly the sessions of the last (re)load whose delete
\* has not succeeded since: a session deleted with success is gone and stays
\* gone until a reload, every other session stays listed, also while several
\* deletes are in flight, and a declined or failed delete changes nothing.
C18_DeletedGoneOthersStay ==
    mounted \in {AD, RS} =>
        LET notDeleted(x) == x.id \notin w.deleted
        IN  IdsInOrder(w.sessions) = IdsInOrder(SelectSeq(w.loaded, notDeleted))

\* C18's failing case: a session whose delete succeeded is listed again
\* without any reload.
C18_DeletedSessionListed ==
    /\ mounted \in {AD, RS}
    /\ \E x \in Listed(w) : x.id \in w.deleted

\* C20: on both pages, every report whose request succeeded has been saved as
\* a file for the user.
C20_ReceivedReportSaved ==
    mounted \in {AD, RS} => w.received \subseteq w.saved

\* C20's failing case: the Admin Dashboard has received a report and saved
\* nothing.
C20_DashboardReportNotSaved ==
    mounted = AD /\ w.received # {} /\ w.saved = {}

\* ============================================ AdminDashboard.filteredSessions
\* A text is the sequence of its characters.
UPPER == << "A", "B", "C", "D", "E", "F", "G", "H", "I", "J", "K", "L", "M",
            "N", "O", "P", "Q", "R", "S", "T", "U", "V", "W", "X", "Y", "Z" >>
LOWER == << "a", "b", "c", "d", "e", "f", "g", "h", "i", "j", "k", "l", "m",
            "n", "o", "p", "q", "r", "s", "t", "u", "v", "w", "x", "y", "z" >>
DIGITS == << "0", "1", "2", "3", "4", "5", "6", "7", "8", "9" >>

\* String.prototype.toLowerCase, includes, and Number.prototype.toString.
toLowerCase(str) ==
    [i \in 1..Len(str) |->
        IF \E k \in 1..Len(UPPER) : UPPER[k] = str[i]
        THEN LOWER[CHOOSE k \in 1..Len(UPPER) : UPPER[k] = str[i]]
        ELSE str[i]]

includes(str, search) ==
    \E i \in 1..(Len(str) - Len(search) + 1) :
        SubSeq(str, i, i + Len(search) - 1) = search

RECURSIVE toString(_)
toString(n) ==
    IF n < 10 THEN << DIGITS[n + 1] >>
    ELSE toString(n \div 10) \o << DIGITS[(n % 10) + 1] >>

\* The texts the filter meets: task types, risk levels and menu values.
TEXT ==
    [ raise_hand |-> << "r", "a", "i", "s", "e", "_", "h", "a", "n", "d" >>,
      one_leg |-> << "o", "n", "e", "_", "l", "e", "g" >>,
      all |-> << "a", "l", "l" >>,
      high |-> << "h", "i", "g", "h" >>,
      High |-> << "H", "i", "g", "h" >>,
      medium |-> << "m", "e", "d", "i", "u", "m" >>,
      normal |-> << "n", "o", "r", "m", "a", "l" >>,
      child |-> << "c", "h", "i", "l", "d" >>,
      teen |-> << "t", "e", "e", "n" >>,
      adult |-> << "a", "d", "u", "l", "t" >> ]

\* risk_level may be null: `some` tells whether it is a string.
Some(str) == [some |-> TRUE, str |-> str]
Null == [some |-> FALSE, str |-> << >>]

\* The age filter of filteredSessions: TRUE when the session passes it
\* (`session.childAge || 0` is childAge: the mock age is never 0 or absent).
\* The variant lets a 12 year old pass as a teen.
ad_passesAgeFilter_TeenFrom12(ageFilter, childAge) ==
    LET age == childAge
    IN  ~ \/ (ageFilter = TEXT.child /\ (age < 5 \/ age > 12))
          \/ (ageFilter = TEXT.teen /\ (age < 12 \/ age > 17))
          \/ (ageFilter = TEXT.adult /\ age < 18)
ad_passesAgeFilter(ageFilter, childAge) ==
    IF ageFilter = TEXT.all THEN TRUE
    ELSE LET age == childAge
         IN  ~ \/ (ageFilter = TEXT.child /\ (age < 5 \/ age > 12))
               \/ (ageFilter = TEXT.teen /\ (age < 13 \/ age > 17))
               \/ (ageFilter = TEXT.adult /\ age < 18)

\* The callback of sessions.filter.
ad_filterCallback(session, searchQuery, riskFilter, ageFilter) ==
    LET searchLower == toLowerCase(searchQuery)
        matchesSearch ==
            \/ includes(toString(session.id), searchLower)
            \/ includes(toLowerCase(session.task_type), searchLower)
            \/ includes(toString(session.childAge), searchLower)
    IN  IF ~matchesSearch THEN FALSE
        ELSE IF riskFilter # TEXT.all
                  /\ ~(session.risk_level.some
                         /\ toLowerCase(session.risk_level.str) = toLowerCase(riskFilter))
             THEN FALSE
        ELSE ad_passesAgeFilter(ageFilter, session.childAge)

filteredSessions(sessions, searchQuery, riskFilter, ageFilter) ==
    LET keep(session) == ad_filterCallback(session, searchQuery, riskFilter, ageFilter)
    IN  SelectSeq(sessions, keep)

\* Lists of one session as loadSessions stores them (childAge is a mock age
\* of 5 to 16) and lists of two one_leg sessions with id 12; what can be typed
\* in the search bar; the values of the two menus.
FilterInputs ==
    LET sessions == [id : {7, 12}, task_type : {TEXT.raise_hand, TEXT.one_leg},
                     risk_level : {Some(TEXT.High), Some(TEXT.normal), Null},
                     childAge : {5, 12, 13, 16}]
        pairable == {x \in sessions : x.id = 12 /\ x.task_type = TEXT.one_leg}
    IN  [sessions : {<< x >> : x \in sessions} \cup {<< a, b >> : a, b \in pairable},
         searchQuery : { << >>, << "1" >>, << "7" >>, << "1", "2" >>,
                         << "L", "e", "g" >>, << "x" >> },
         riskFilter : {TEXT.all, TEXT.high, TEXT.medium, TEXT.normal},
         ageFilter : {TEXT.all, TEXT.child, TEXT.teen, TEXT.adult}]

FilterInit ==
    /\ mounted = "filteredSessions"
    /\ mediaSupported = FALSE
    /\ clock = 0
    /\ pose = "none"
    /\ w = InitialComponent
    /\ ev = "other"
    /\ probe \in [fn : {"filteredSessions"}, input : FilterInputs, output : {<< >>}]

\* The dashboard renders: the table shows filteredSessions.
RenderTable ==
    /\ mounted = "filteredSessions" /\ ev = "other"
    /\ probe' = [probe EXCEPT !.output =
                    filteredSessions(probe.input.sessions, probe.input.searchQuery,
                                     probe.input.riskFilter, probe.input.ageFilter)]
    /\ ev' = "rendered"
    /\ UNCHANGED << mounted, mediaSupported, clock, pose, w >>

FilterSpec == FilterInit /\ [][RenderTable]_vars

\* The three conditions of the guide, for one session.
SearchMatches(session, query) ==
    \/ Len(query) = 0
    \/ \E text \in {toString(session.id), session.task_type, toString(session.childAge)} :
           includes(toLowerCase(text), toLowerCase(query))
RiskMatches(session, level) ==
    \/ level = TEXT.all
    \/ session.risk_level.some /\ toLowerCase(session.risk_level.str) = level
InAgeGroup(age, group) ==
    CASE group = TEXT.child -> 5 <= age /\ age <= 12
      [] group = TEXT.teen -> 13 <= age /\ age <= 17
      [] group = TEXT.adult -> 18 <= age
AgeMatches(session, group) ==
    group = TEXT.all \/ InAgeGroup(session.childAge, group)

TTS == "playInstruction"

\* fallbackToWebSpeech(text, lang, rate, pitch): rejects when the browser
\* has no speechSynthesis, otherwise speaks the utterance and settles on its
\* onend or onerror event.
fallbackToWebSpeech(call, speechSupported) ==
    IF ~speechSupported
    THEN [call EXCEPT !.pc = "done", !.fellBack = @ + 1,
                      !.speech = "unsupported", !.result = "rejected"]
    ELSE [call EXCEPT !.pc = "speaking", !.fellBack = @ + 1,
                      !.speech = "speaking"]

\* The else branch of `if (response.ok)`: the endpoint answered with a
\* status that is not OK.
pi_notOk(call, speechSupported) == fallbackToWebSpeech(call, speechSupported)

\* A catch block that passes the error on instead of falling back.
pi_catch_Rethrows(call, speechSupported) ==
    [call EXCEPT !.pc = "done", !.result = "rejected"]

\* The catch block of playInstruction.
pi_catch(call, speechSupported) == fallbackToWebSpeech(call, speechSupported)

\* playInstruction(text, options) up to its first await, fetch(url).
\* words is text.split(/\s+/).length, rate is options.rate.
playInstruction(words, rate) ==
    [pc |-> "fetch", words |-> words, rate |-> rate, endpoint |-> "untried",
     fellBack |-> 0, speech |-> "none", result |-> "pending",
     audioBuffer |-> FALSE, duration |-> 0]

\* playInstruction resumes after the await it stands at, with the outcome
\* of the awaited promise; d is the duration of the decoded audio.
pi_resumes(call, outcome, d, speechSupported) ==
    CASE call.pc = "fetch" /\ outcome = "ok" ->
           [call EXCEPT !.pc = "arrayBuffer", !.endpoint = "ok"]
      [] call.pc = "fetch" /\ outcome = "notOk" ->
           pi_notOk([call EXCEPT !.endpoint = "failed"], speechSupported)
      [] call.pc = "fetch" /\ outcome = "throws" ->
           pi_catch([call EXCEPT !.endpoint = "failed"], speechSupported)
      [] call.pc = "arrayBuffer" /\ outcome = "ok" ->
           [call EXCEPT !.pc = "decodeAudioData"]
      [] call.pc = "arrayBuffer" /\ outcome = "noAudioContext" ->
           pi_catch(call, speechSupported)
      [] call.pc = "decodeAudioData" /\ outcome = "ok" ->
           [call EXCEPT !.pc = "done", !.result = "resolved",
                        !.audioBuffer = TRUE, !.duration = d]
      [] OTHER ->
           pi_catch([call EXCEPT !.endpoint = "failed"], speechSupported)

\* utterance.onend and utterance.onerror.
\* estimatedDuration = words / (150 * rate) * 60 seconds.
pi_utterance(call, event) ==
    IF event = "end"
    THEN [call EXCEPT !.pc = "done", !.speech = "end", !.result = "resolved",
                      !.duration = (call.words * 60000) \div (150 * call.rate)]
    ELSE [call EXCEPT !.pc = "done", !.speech = "error", !.result = "rejected"]

TtsInit ==
    /\ mounted = TTS
    /\ mediaSupported = FALSE
    /\ clock = 0
    /\ pose = "none"
    /\ \E b \in BOOLEAN : w = [speechSupported |-> b, calls |-> << >>]
    /\ ev = "none"
    /\ probe = NoProbe

CallPlayInstruction ==
    /\ mounted = TTS
    /\ Len(w.calls) < MaxCalls
    /\ \E words \in {1, 3}, rate \in {1, 2} :
         w' = [w EXCEPT !.calls = Append(@, playInstruction(words, rate))]
    /\ ev' = "playInstruction"
    /\ Frame
    /\ UNCHANGED << clock, pose >>

TtsAwaitSettles ==
    /\ mounted = TTS
    /\ \E c \in DOMAIN w.calls :
         /\ w.calls[c].pc \in {"fetch", "arrayBuffer", "decodeAudioData"}
         /\ \E outcome \in CASE w.calls[c].pc = "fetch" -> {"ok", "notOk", "throws"}
                             [] w.calls[c].pc = "arrayBuffer" -> {"ok", "rejects", "noAudioContext"}
                             [] OTHER -> {"ok", "rejects"},
               d \in {400, 1200} :
              w' = [w EXCEPT !.calls[c] = pi_resumes(@, outcome, d, w.speechSupported)]
    /\ ev' = "settled"
    /\ Frame
    /\ UNCHANGED << clock, pose >>

UtteranceFires ==
    /\ mounted = TTS
    /\ \E c \in DOMAIN w.calls, event \in {"end", "error"} :
         /\ w.calls[c].pc = "speaking"
         /\ w' = [w EXCEPT !.calls[c] = pi_utterance(@, event)]
    /\ ev' = "utterance"
    /\ Frame
    /\ UNCHANGED << clock, pose >>

TtsNext == CallPlayInstruction \/ TtsAwaitSettles \/ UtteranceFires

TtsSpec == TtsInit /\ [][TtsNext]_vars

\* The fallback of a call was entered and failed: the browser has no speech
\* synthesis, or the utterance reported an error.
FallbackFailed(call) == call.fellBack = 1 /\ call.speech \in {"unsupported", "error"}

\* C21: a call of playInstruction whose /api/tts request threw, returned a
\* status that is not OK, or returned audio that could not be read or decoded
\* has entered fallbackToWebSpeech, once; and no call is rejected unless its
\* fallback was entered and failed, so the endpoint's failure alone rejects
\* nothing.
C21_EndpointFailureFallsBack ==
    mounted = TTS =>
      \A c \in DOMAIN w.calls :
        /\ w.calls[c].endpoint = "failed" => w.calls[c].fellBack = 1
        /\ w.calls[c].result = "rejected" => FallbackFailed(w.calls[c])
        /\ w.calls[c].endpoint = "failed" /\ w.calls[c].result = "resolved"
             => w.calls[c].speech = "end" /\ ~w.calls[c].audioBuffer

\* The endpoint failed for two calls: the fallback spoke one to the end, and
\* the utterance of the other reported an error.
C21_FellBackAndSpoke ==
    /\ mounted = TTS
    /\ \E c \in DOMAIN w.calls :
         /\ w.calls[c].endpoint = "failed"
         /\ w.calls[c].result = "resolved"
         /\ w.calls[c].speech = "end"
    /\ \E c \in DOMAIN w.calls :
         /\ w.calls[c].endpoint = "failed"
         /\ w.calls[c].result = "rejected"

\* =========================================================================
\* Starting the camera fails
\* =========================================================================
\* C22 (OneLegStanceTask): when a call of startCamera has just failed, the
\* message says why (the model did not load, getUserMedia is missing, the
\* permission was denied, no camera was found, or the error's own message)
\* and the camera is inactive: isCameraActive is false, streamRef and
\* video.srcObject are null, no stream the component was given is still open,
\* and no processFrame callback and no countdown interval is scheduled.
C22_FailedStartLeavesCameraOff ==
    (mounted = OL /\ ev = "startFailed") =>
      /\ w.error = IF ~w.poseLandmarkerRef THEN "modelFailed"
                   ELSE IF ~mediaSupported THEN "unsupported"
                   ELSE w.error
      /\ w.error \in {"modelFailed", "unsupported", "denied", "notFound", "other"}
      /\ ~w.isCameraActive
      /\ w.streamRef = 0 /\ w.srcObject = 0 /\ w.streams = {}
      /\ w.rafQueue = {}
      /\ w.timers = {}

\* A call of startCamera has just failed and stopped the camera, and a stream
\* that an earlier call was given is still open.
C22_StreamLeftOpen ==
    /\ mounted = OL /\ ev = "startFailed"
    /\ ~w.isCameraActive /\ w.streamRef = 0
    /\ w.streams # {}

\* =========================================================================
\* UltimatePoseTest
\* =========================================================================
\* mounted = UP.  w is the component record of the task pages, of which
\* UltimatePoseTest uses status, isRunning, poseLandmarkerRef,
\* animationFrameRef, video.srcObject and the browser's queues.  Its
\* processFrame closes over refs only, so every callback behaves alike.
UP == "UltimatePoseTest"

\* processFrame: detect, draw, report the pose, schedule itself again.
up_processFrame(s, p) ==
    IF ~s.poseLandmarkerRef THEN s
    ELSE requestAnimationFrame(
             [s EXCEPT !.status = IF LandmarksOf(p) # << >> THEN "poseDetected" ELSE @],
             FreeCall.cap)

\* start, up to its first await.
up_start(s) ==
    Spawn([s EXCEPT !.status = "loading"], "start", "forVisionTasks", FreeCall.cap)

\* start resumes after an await; after video.play() it calls processFrame().
up_startResumes(s, c, ok, supported, p) ==
    LET pc == s.calls[c].pc
        catch(t) == Return([t EXCEPT !.status = "error"], c)
    IN  IF ~ok THEN catch(s)
        ELSE CASE pc = "forVisionTasks" ->
                    [s EXCEPT !.calls[c].pc = "createFromOptions"]
               [] pc = "createFromOptions" ->
                    LET s1 == [s EXCEPT !.poseLandmarkerRef = TRUE,
                                        !.status = "modelLoaded"]
                    IN  IF supported THEN [s1 EXCEPT !.calls[c].pc = "getUserMedia"]
                        ELSE catch(s1)
               [] pc = "getUserMedia" ->
                    LET stream == Fresh(StreamsInUse(s))
                    IN  [s EXCEPT !.streams = @ \cup {stream}, !.srcObject = stream,
                                  !.calls[c].pc = "play"]
               [] pc = "play" ->
                    up_processFrame(
                        Return([s EXCEPT !.status = "cameraStarted",
                                         !.isRunning = TRUE], c), p)

\* stop: cancels the callback animationFrameRef names, stops the tracks of
\* video.srcObject; neither the ref nor srcObject is cleared.
up_stop(s) ==
    LET s1 == IF s.animationFrameRef # 0
              THEN cancelAnimationFrame(s, s.animationFrameRef) ELSE s
        s2 == IF s1.srcObject # 0
              THEN [s1 EXCEPT !.streams = @ \ {s1.srcObject}] ELSE s1
    IN  [s2 EXCEPT !.isRunning = FALSE, !.status = "stopped"]

UltimateInit ==
    /\ mounted = UP
    /\ mediaSupported \in BOOLEAN
    /\ clock = 0
    /\ pose = "neutral"
    /\ w = [InitialComponent EXCEPT !.status = "Ready"]
    /\ ev = "other"
    /\ probe = NoProbe

\* START, disabled while isRunning.
ClickSTART ==
    /\ mounted = UP /\ ~w.isRunning
    /\ Bounded(up_start(w))
    /\ w' = Canon(up_start(w))
    /\ ev' = "start"
    /\ UNCHANGED << clock, pose >> /\ Frame

\* STOP, disabled unless isRunning.
ClickSTOP ==
    /\ mounted = UP /\ w.isRunning
    /\ w' = Canon(up_stop(w))
    /\ ev' = "stop"
    /\ UNCHANGED << clock, pose >> /\ Frame

\* A promise a call of start awaits settles.
UltimateAwaitSettles ==
    /\ mounted = UP
    /\ \E c \in 1..MaxCalls :
         /\ w.calls[c].fn = "start"
         /\ \E o \in Outcomes(w.calls[c].pc) :
              LET t == up_startResumes(w, c, o = "ok", mediaSupported, pose)
              IN  Bounded(t) /\ w' = Canon(t)
    /\ ev' = "settled"
    /\ UNCHANGED << clock, pose >> /\ Frame

\* The browser runs a scheduled processFrame on the pose then in view.
UltimateAnimationFrame ==
    /\ mounted = UP
    /\ \E r \in w.rafQueue, p \in PoseNames :
         LET t == up_processFrame(Canon([w EXCEPT !.rafQueue = @ \ {r}]), p)
         IN  Bounded(t) /\ w' = Canon(t) /\ pose' = p
    /\ ev' = "frame"
    /\ UNCHANGED clock /\ Frame

UltimateNext ==
    ClickSTART \/ ClickSTOP \/ UltimateAwaitSettles \/ UltimateAnimationFrame

UltimateSpec == UltimateInit /\ [][UltimateNext]_vars

\* C26: in UltimatePoseTest at most one processFrame callback is scheduled at
\* any time, and when STOP has just been handled none is.
C26_OneLoopAndStopEndsIt ==
    mounted = UP =>
      /\ Cardinality(w.rafQueue) <= 1
      /\ ev = "stop" => w.rafQueue = {}

\* STOP has just been handled and a processFrame callback is still scheduled.
C26_LoopSurvivesStop ==
    mounted = UP /\ ev = "stop" /\ ~w.isRunning /\ w.rafQueue # {}

====
